---- MODULE Spec2Model ----
(***************************************************************************)
(* HamamatsuImagEMX2: the qudi camera adapter for the Hamamatsu ImagEM X2  *)
(* (src/qudi/hardware/camera/hamamatsu/hamamatsu_imagem_x2.py).            *)
(*                                                                         *)
(* Every interface method is one action.  An action records, for the call  *)
(* it models, the adapter instance and method (lastOp), the value returned *)
(* or exception raised (ret) and the calls the method body issued, in      *)
(* program order (calls): calls on the DCAM session object and the calls   *)
(* on self that the body makes.  The DCAM session itself is outside the    *)
(* repository: a setter stores its argument, a getter returns the stored   *)
(* value, and the status the device reports after an acquisition command   *)
(* is any of StatusValues.                                                 *)
(***************************************************************************)
EXTENDS Integers, Sequences, FiniteSets, TLC

VARIABLES
    activated,          \* [Inst -> BOOLEAN] between on_activate and on_deactivate
    cam,                \* [Inst -> handle]  self.cam: "None", "opened" or "closed"
    _gain,              \* [Inst -> value]   self._gain: <<>> for None, else <<g>>
    _bin_value,         \* [Inst -> value]   self._bin_value: <<>> while unset
    dev,                \* [Inst -> record]  settings and status held by the device
    dcamapi,            \* pylablib.par["devices/dlls/dcamapi"]: <<>> when absent
    lastOp,             \* <<instance, method>> of the most recent call
    ret,                \* what that call returned or raised
    calls,              \* the calls its body issued, in order
    gainArg             \* [Inst -> value] argument of the most recent set_gain call

vars == <<activated, cam, _gain, _bin_value, dev, dcamapi, lastOp, ret, calls, gainArg>>

(***************************************************************************)
(* Bounds of the model.                                                    *)
(***************************************************************************)
MaxGain == 2
MaxExposure == 2
MaxBin == 1

Gains == 1..MaxGain
Exposures == 1..MaxExposure
BinValues == 1..MaxBin

(***************************************************************************)
(* Program constants and value sets.                                       *)
(***************************************************************************)
Inst == {1, 2}          \* adapter instances living in one process
Adapter == {1}          \* the instance of the single-adapter specification

\* ConfigOption('default_exposure', 1.0), ConfigOption('default_gain', 1.0)
_default_exposure == 1
_default_gain == 1

\* setup_acquisition('snap', nframes=1), setup_acquisition('sequence', nframes=100)
SnapFrames == 1
LiveFrames == 100

TriggerModes == {"int", "ext", "software"}
StatusValues == {"ready", "acquiring", "error"}
ROIs == {<<0, 1, 0, 1, 1>>, <<0, 2, 0, 2, 1>>}

None == <<>>
Some(v) == <<v>>

_dll_location(i) == Some(<<"dll", i>>)

Returns(v) == <<"return", v>>
Raises(e) == <<"raise", e>>

\* A call on the session object: <<method, arguments, result>>.
Call(f, args, out) == <<f, args, out>>
\* A call the method body makes on self.
SelfCall(f, args) == <<"self." \o f, args, None>>

SelfNames == {"self.set_gain", "self.get_trigger_mode", "self.set_trigger_mode"}
IsSessionCall(c) == c[1] \notin SelfNames
SessionCalls(cs) == SelectSeq(cs, IsSessionCall)
SelfCalls(cs) == SelectSeq(cs, LAMBDA c : ~IsSessionCall(c))
CallsNamed(cs, f) == SelectSeq(cs, LAMBDA c : c[1] = f)

InitDevice ==
    [exposure |-> MaxExposure, trigger_mode |-> "int", status |-> "ready",
     contrast_gain |-> 1, sensitivity |-> 1, roi |-> <<0, 1, 0, 1, 1>>]

Init ==
    /\ activated = [i \in Inst |-> FALSE]
    /\ cam = [i \in Inst |-> "None"]
    /\ _gain = [i \in Inst |-> None]
    /\ _bin_value = [i \in Inst |-> None]
    /\ dev = [i \in Inst |-> InitDevice]
    /\ dcamapi = None
    /\ lastOp = <<0, "__init__">>
    /\ ret = Returns(None)
    /\ calls = <<>>
    /\ gainArg = [i \in Inst |-> None]

\* The session (pylablib's DCAMCamera) after the call c: a setter stores its
\* argument, every other call leaves the settings alone.
sdk_apply(d, c) ==
    CASE c[1] = "set_exposure" -> [d EXCEPT !.exposure = c[2][1]]
      [] c[1] = "set_trigger_mode" -> [d EXCEPT !.trigger_mode = c[2][1]]
      [] c[1] = "set_contrast_gain" -> [d EXCEPT !.contrast_gain = c[2][1]]
      [] c[1] = "set_sensitivity" -> [d EXCEPT !.sensitivity = c[2][1]]
      [] c[1] = "set_roi" -> [d EXCEPT !.roi = c[2]]
      [] OTHER -> d

\* The session after the calls cs, in order.
RECURSIVE device_after(_, _)
device_after(d, cs) ==
    IF Len(cs) = 0 THEN d ELSE device_after(sdk_apply(d, Head(cs)), Tail(cs))

\* What a call leaves behind in lastOp, ret and calls.
Done(i, op, r, cs) ==
    /\ lastOp' = <<i, op>>
    /\ ret' = r
    /\ calls' = cs

(***************************************************************************)
(* on_activate / on_deactivate                                             *)
(***************************************************************************)
\* pylablib.par["devices/dlls/dcamapi"] = self._dll_location
register_dll(par, path) == path

\* faulty variant of unregister_dll: the registration is left in place
unregister_dll_keep(par) == [par |-> par, raised |-> FALSE]

\* variant of unregister_dll: the key is deleted only when it is there
unregister_dll_if_present(par) == [par |-> None, raised |-> FALSE]

\* del pylablib.par["devices/dlls/dcamapi"]: KeyError when the key is absent
unregister_dll(par) == [par |-> None, raised |-> par = None]

\* variant of activation_calls: the default trigger mode is applied as well
activation_calls_with_trigger(E, G) ==
    << Call("set_exposure", <<E>>, None), SelfCall("set_gain", <<G>>),
       Call("set_trigger_mode", <<"int">>, None) >>

\* self.cam.set_exposure(self._default_exposure); self.set_gain(self._default_gain)
activation_calls(E, G) ==
    << Call("set_exposure", <<E>>, None), SelfCall("set_gain", <<G>>) >>

\* self._gain after the calls cs: set_gain stores its argument
gain_after(g, cs) ==
    LET sets == CallsNamed(cs, "self.set_gain")
    IN  IF Len(sets) = 0 THEN g ELSE Some(sets[Len(sets)][2][1])

on_activate(i) ==
    /\ ~activated[i]
    /\ dcamapi' = register_dll(dcamapi, _dll_location(i))
    /\ cam' = [cam EXCEPT ![i] = "opened"]
    /\ LET cs == << Call("DCAMCamera", <<>>, None) >>
                 \o activation_calls(_default_exposure, _default_gain)
       IN  /\ dev' = [dev EXCEPT ![i] = device_after(@, cs)]
           /\ _gain' = [_gain EXCEPT ![i] = gain_after(@, cs)]
           /\ gainArg' = [gainArg EXCEPT ![i] = gain_after(@, cs)]
           /\ Done(i, "on_activate", Returns(None), cs)
    /\ activated' = [activated EXCEPT ![i] = TRUE]
    /\ UNCHANGED <<_bin_value>>

\* faulty variant of close_calls: a session in error is not closed
close_calls_unless_error(d) ==
    IF d.status = "error" THEN <<>> ELSE << Call("close", <<>>, None) >>

\* self.cam.close(): the calls with which on_deactivate releases the session
close_calls(d) == << Call("close", <<>>, None) >>

\* the handle after the calls cs: close() leaves the object in place, closed
handle_after(h, cs) == IF Len(CallsNamed(cs, "close")) > 0 THEN "closed" ELSE h

on_deactivate(i) ==
    /\ activated[i]
    /\ LET cs == close_calls(dev[i])
           del == unregister_dll(dcamapi)
       IN  /\ cam' = [cam EXCEPT ![i] = handle_after(@, cs)]
           /\ dcamapi' = del.par
           /\ Done(i, "on_deactivate",
                   IF del.raised THEN Raises("KeyError") ELSE Returns(None), cs)
    /\ activated' = [activated EXCEPT ![i] = FALSE]
    /\ UNCHANGED <<_gain, _bin_value, dev, gainArg>>

(***************************************************************************)
(* Acquisition                                                             *)
(***************************************************************************)
\* faulty variant of ensure_internal_trigger: the mode is read, never set
ensure_internal_trigger_read_only(tm) ==
    << SelfCall("get_trigger_mode", <<>>), Call("get_trigger_mode", <<>>, Some(tm)) >>

\* if self.get_trigger_mode() != 'int': self.set_trigger_mode('int')
ensure_internal_trigger(tm) ==
    << SelfCall("get_trigger_mode", <<>>), Call("get_trigger_mode", <<>>, Some(tm)) >>
    \o (IF tm # "int"
        THEN << SelfCall("set_trigger_mode", <<"int">>),
                Call("set_trigger_mode", <<"int">>, None) >>
        ELSE <<>>)

\* faulty variant of no_error: only 'ready' counts as success
no_error_ready_only(status) == status = "ready"

\* no_error = (True if (self.cam.get_status() != 'error') else False)
no_error(status) == status # "error"

\* the body of both start methods: mode is 'snap' or 'sequence', wait tells
\* whether wait_for_frame is called, s is the status the device then reports
start_acquisition(i, op, mode, nframes, wait, s) ==
    /\ activated[i]
    /\ LET trig == ensure_internal_trigger(dev[i].trigger_mode)
           cs == trig
                 \o << Call("setup_acquisition", <<mode, nframes>>, None),
                       Call("start_acquisition", <<mode, nframes>>, None) >>
                 \o (IF wait THEN << Call("wait_for_frame", <<>>, None) >> ELSE <<>>)
                 \o << Call("get_status", <<>>, Some(s)) >>
       IN  /\ dev' = [dev EXCEPT ![i] = [device_after(@, cs) EXCEPT !.status = s]]
           /\ Done(i, op, Returns(no_error(s)), cs)
    /\ UNCHANGED <<activated, cam, _gain, _bin_value, dcamapi, gainArg>>

start_single_acquisition(i) ==
    \E s \in StatusValues :
        start_acquisition(i, "start_single_acquisition", "snap", SnapFrames, TRUE, s)

start_live_acquisition(i) ==
    \E s \in StatusValues :
        start_acquisition(i, "start_live_acquisition", "sequence", LiveFrames, FALSE, s)

\* faulty variant of stop_result: the stop request is taken to have worked
stop_result_assumed(in_progress) == TRUE

\* return not is_acquiring
stop_result(in_progress) == ~in_progress

\* the status of the device once stop_acquisition has been requested
status_after_stop(status, in_progress) ==
    IF status = "acquiring" /\ ~in_progress THEN "ready" ELSE status

stop_acquisition(i) ==
    /\ activated[i]
    /\ \E b \in BOOLEAN :
        /\ dev' = [dev EXCEPT ![i].status = status_after_stop(@, b)]
        /\ Done(i, "stop_acquisition", Returns(stop_result(b)),
                << Call("stop_acquisition", <<>>, None),
                   Call("acquisition_in_progress", <<>>, Some(b)) >>)
    /\ UNCHANGED <<activated, cam, _gain, _bin_value, dcamapi, gainArg>>

\* faulty variant of ready_state: every status but 'error' counts as ready
ready_state_not_error(status) == status # "error"

\* return (True if (self.cam.get_status() == 'ready') else False)
ready_state(status) == status = "ready"

get_ready_state(i) ==
    /\ activated[i]
    /\ Done(i, "get_ready_state", Returns(ready_state(dev[i].status)),
            << Call("get_status", <<>>, Some(dev[i].status)) >>)
    /\ UNCHANGED <<activated, cam, _gain, _bin_value, dev, dcamapi, gainArg>>

(***************************************************************************)
(* Settings forwarded to the session                                       *)
(***************************************************************************)
\* a setter that forwards value v to the session method of the same name
forward_set(i, op, v) ==
    /\ activated[i]
    /\ dev' = [dev EXCEPT ![i] = device_after(@, << Call(op, <<v>>, None) >>)]
    /\ Done(i, op, Returns(None), << Call(op, <<v>>, None) >>)
    /\ UNCHANGED <<activated, cam, _gain, _bin_value, dcamapi, gainArg>>

\* a getter that returns what the session method f returns
forward_get(i, op, f, field) ==
    /\ activated[i]
    /\ Done(i, op, Returns(Some(dev[i][field])),
            << Call(f, <<>>, Some(dev[i][field])) >>)
    /\ UNCHANGED <<activated, cam, _gain, _bin_value, dev, dcamapi, gainArg>>

set_exposure(i) == \E e \in Exposures : forward_set(i, "set_exposure", e)
get_exposure(i) == forward_get(i, "get_exposure", "get_exposure", "exposure")

set_contrast_gain(i) ==
    \E g \in Gains : forward_set(i, "set_contrast_gain", g)
get_contrast_gain(i) ==
    forward_get(i, "get_contrast_gain", "get_contrast_gain", "contrast_gain")

set_sensitivity(i) == \E g \in Gains : forward_set(i, "set_sensitivity", g)
get_sensitivity(i) == forward_get(i, "get_sensitivity", "get_sensitivity", "sensitivity")

set_trigger_mode(i) ==
    \E m \in TriggerModes : forward_set(i, "set_trigger_mode", m)
get_trigger_mode(i) ==
    forward_get(i, "get_trigger_mode", "get_trigger_mode", "trigger_mode")

set_region_of_interest(i) ==
    \E r \in ROIs :
        /\ activated[i]
        /\ dev' = [dev EXCEPT ![i] = device_after(@, << Call("set_roi", r, None) >>)]
        /\ Done(i, "set_region_of_interest", Returns(None), << Call("set_roi", r, None) >>)
        /\ UNCHANGED <<activated, cam, _gain, _bin_value, dcamapi, gainArg>>
get_ROI(i) == forward_get(i, "get_ROI", "get_roi", "roi")

_get_status(i) == forward_get(i, "_get_status", "get_status", "status")

(***************************************************************************)
(* Identification and readout                                              *)
(***************************************************************************)
\* what self.cam.get_name() returns: the fields identifying the camera
DeviceName == <<"Hamamatsu", "ImagEM X2">>

\* " ".join(list(tuple(name)))
RECURSIVE join(_)
join(name) ==
    IF Len(name) = 0 THEN ""
    ELSE IF Len(name) = 1 THEN name[1]
    ELSE name[1] \o " " \o join(Tail(name))

get_name(i) ==
    /\ activated[i]
    /\ Done(i, "get_name", Returns(join(DeviceName)),
            << Call("get_name", <<>>, Some(DeviceName)) >>)
    /\ UNCHANGED <<activated, cam, _gain, _bin_value, dev, dcamapi, gainArg>>

\* what the session returns for the frame dimensions and the newest frame is
\* passed on as it is
get_size(i) ==
    /\ activated[i]
    /\ Done(i, "get_size", Returns(<<"data_dimensions", dev[i].roi>>),
            << Call("get_data_dimensions", <<>>, <<"data_dimensions", dev[i].roi>>) >>)
    /\ UNCHANGED <<activated, cam, _gain, _bin_value, dev, dcamapi, gainArg>>

get_acquired_data(i) ==
    /\ activated[i]
    /\ Done(i, "get_acquired_data", Returns(<<"newest_image">>),
            << Call("read_newest_image", <<>>, <<"newest_image">>) >>)
    /\ UNCHANGED <<activated, cam, _gain, _bin_value, dev, dcamapi, gainArg>>

support_live_acquisition(i) ==
    /\ activated[i]
    /\ Done(i, "support_live_acquisition", Returns(TRUE), <<>>)
    /\ UNCHANGED <<activated, cam, _gain, _bin_value, dev, dcamapi, gainArg>>

(***************************************************************************)
(* Settings cached in the adapter                                          *)
(***************************************************************************)
\* self._gain = gain
set_gain(i) ==
    \E g \in Gains :
        /\ activated[i]
        /\ _gain' = [_gain EXCEPT ![i] = Some(g)]
        /\ gainArg' = [gainArg EXCEPT ![i] = Some(g)]
        /\ Done(i, "set_gain", Returns(None), <<>>)
        /\ UNCHANGED <<activated, cam, _bin_value, dev, dcamapi>>

\* faulty variant of get_gain: the gain is read from the session
get_gain_from_device(i) ==
    /\ activated[i]
    /\ Done(i, "get_gain", Returns(Some(dev[i].contrast_gain)),
            << Call("get_contrast_gain", <<>>, Some(dev[i].contrast_gain)) >>)
    /\ UNCHANGED <<activated, cam, _gain, _bin_value, dev, dcamapi, gainArg>>

\* return self._gain
get_gain(i) ==
    /\ activated[i]
    /\ Done(i, "get_gain", Returns(_gain[i]), <<>>)
    /\ UNCHANGED <<activated, cam, _gain, _bin_value, dev, dcamapi, gainArg>>

set_binning_value(i) ==
    \E b \in BinValues :
        /\ activated[i]
        /\ _bin_value' = [_bin_value EXCEPT ![i] = Some(b)]
        /\ Done(i, "set_binning_value", Returns(None), <<>>)
        /\ UNCHANGED <<activated, cam, _gain, dev, dcamapi, gainArg>>

\* self._bin_value does not exist before the first set_binning_value
get_binning_value(i) ==
    /\ activated[i]
    /\ Done(i, "get_binning_value",
            IF _bin_value[i] = None THEN Raises("AttributeError")
            ELSE Returns(_bin_value[i]), <<>>)
    /\ UNCHANGED <<activated, cam, _gain, _bin_value, dev, dcamapi, gainArg>>

(***************************************************************************)
(* Specifications                                                          *)
(***************************************************************************)
Lifecycle(i) ==
    \/ on_activate(i)
    \/ on_deactivate(i)

Acquisition(i) ==
    \/ start_single_acquisition(i)
    \/ start_live_acquisition(i)
    \/ stop_acquisition(i)
    \/ get_ready_state(i)

Forwarded(i) ==
    \/ set_exposure(i)
    \/ get_exposure(i)
    \/ set_contrast_gain(i)
    \/ get_contrast_gain(i)
    \/ set_sensitivity(i)
    \/ get_sensitivity(i)
    \/ set_trigger_mode(i)
    \/ get_trigger_mode(i)
    \/ set_region_of_interest(i)
    \/ get_ROI(i)
    \/ _get_status(i)

Identification(i) ==
    \/ get_name(i)
    \/ get_size(i)
    \/ support_live_acquisition(i)
    \/ get_acquired_data(i)

Cached(i) ==
    \/ set_gain(i)
    \/ get_gain(i)
    \/ set_binning_value(i)
    \/ get_binning_value(i)

\* one adapter, every method
Next ==
    \E i \in Adapter :
        \/ Lifecycle(i)
        \/ Identification(i)
        \/ Acquisition(i)
        \/ Forwarded(i)
        \/ Cached(i)

Spec == Init /\ [][Next]_vars

\* the adapters of one process, each activated, used and deactivated
NextShared ==
    \E i \in Inst : Lifecycle(i) \/ Cached(i)

SpecShared == Init /\ [][NextShared]_vars

(***************************************************************************)
(* Properties                                                              *)
(***************************************************************************)
StartOps == {"start_single_acquisition", "start_live_acquisition"}
Names(cs) == [k \in 1..Len(cs) |-> cs[k][1]]

\* C1: the session handle is non-null while the adapter is activated and null
\* while it is not (before the first on_activate and after every on_deactivate).
C1_SessionNullWhenDeactivated ==
    \A i \in Adapter : activated[i] <=> cam[i] # "None"

\* the state in which C1 is at stake: on_deactivate has completed
C1_Deactivated ==
    lastOp = <<1, "on_deactivate">> /\ ~activated[1]

\* C2: a start_*_acquisition call made while the trigger mode is m issues, on
\* the session and in this order, get_trigger_mode, set_trigger_mode('int')
\* exactly when m is not 'int', setup_acquisition, start_acquisition,
\* wait_for_frame (single acquisition only) and get_status, with the frame
\* counts of the source; the trigger mode is 'int' once the call has armed.
C2_InternalTriggerBeforeArming ==
    [][\A i \in Adapter :
        (lastOp' = <<i, "start_single_acquisition">>
            \/ lastOp' = <<i, "start_live_acquisition">>)
        => LET m == dev[i].trigger_mode
               single == lastOp'[2] = "start_single_acquisition"
               mode == IF single THEN "snap" ELSE "sequence"
               n == IF single THEN SnapFrames ELSE LiveFrames
               sc == SessionCalls(calls')
               k == IF m # "int" THEN 2 ELSE 1
           IN  /\ Names(sc) =
                    <<"get_trigger_mode">>
                    \o (IF m # "int" THEN <<"set_trigger_mode">> ELSE <<>>)
                    \o <<"setup_acquisition", "start_acquisition">>
                    \o (IF single THEN <<"wait_for_frame">> ELSE <<>>)
                    \o <<"get_status">>
               /\ m # "int" => sc[2] = Call("set_trigger_mode", <<"int">>, None)
               /\ sc[k + 1] = Call("setup_acquisition", <<mode, n>>, None)
               /\ sc[k + 2] = Call("start_acquisition", <<mode, n>>, None)
               /\ device_after(dev[i], SubSeq(sc, 1, k)).trigger_mode = "int"
               /\ dev'[i].trigger_mode = "int"
      ]_vars

\* a single acquisition was started while the trigger mode was not 'int'
C2_StartedFromExternal ==
    /\ lastOp = <<1, "start_single_acquisition">>
    /\ Len(CallsNamed(calls, "set_trigger_mode")) = 1
    /\ calls[2] = Call("get_trigger_mode", <<>>, Some("ext"))

\* C3: every on_deactivate issues exactly one close on the session and leaves
\* the handle closed, whatever status the device is in.
C3_ClosedExactlyOnce ==
    \A i \in Adapter :
        lastOp = <<i, "on_deactivate">>
        => /\ Len(CallsNamed(calls, "close")) = 1
           /\ SessionCalls(calls) = << Call("close", <<>>, None) >>
           /\ cam[i] = "closed"

\* the adapter was deactivated with the device left in error by a start
C3_DeactivatedAfterError ==
    /\ lastOp = <<1, "on_deactivate">>
    /\ dev[1].status = "error"
    /\ cam[1] = "closed"

\* C4: once activated, the cached gain is the argument of the most recent
\* set_gain call, get_gain returns it, and neither get_gain nor set_gain
\* issues a call on the session.
C4_GainIsLastSetGain ==
    \A i \in Adapter :
        /\ activated[i] => _gain[i] = gainArg[i] /\ gainArg[i] # None
        /\ lastOp = <<i, "get_gain">> => ret = Returns(gainArg[i]) /\ calls = <<>>
        /\ lastOp = <<i, "set_gain">> => calls = <<>>
        /\ lastOp = <<i, "on_activate">> => gainArg[i] = Some(_default_gain)

\* get_gain returned a gain that is neither the default nor a device value
C4_GainDiffersFromDevice ==
    /\ lastOp = <<1, "get_gain">>
    /\ ret = Returns(gainArg[1])
    /\ gainArg[1] # Some(_default_gain)
    /\ gainArg[1] # Some(dev[1].contrast_gain)
    /\ gainArg[1] # Some(dev[1].sensitivity)

\* C5: on_activate opens the session, issues on it exactly one call,
\* set_exposure(default_exposure), and on itself exactly one call,
\* set_gain(default_gain); the cached gain is then default_gain, and the
\* trigger mode, the ROI, the other device settings and the cached binning
\* value are what they were.
C5_ActivationAppliesDefaults ==
    [][\A i \in Adapter :
        lastOp' = <<i, "on_activate">>
        => /\ SessionCalls(calls') =
                << Call("DCAMCamera", <<>>, None),
                   Call("set_exposure", <<_default_exposure>>, None) >>
           /\ SelfCalls(calls') = << SelfCall("set_gain", <<_default_gain>>) >>
           /\ _gain'[i] = Some(_default_gain)
           /\ dev'[i] = [dev[i] EXCEPT !.exposure = _default_exposure]
           /\ _bin_value' = _bin_value
      ]_vars

\* the adapter was activated again after its settings had been changed
C5_ReactivatedAfterChanges ==
    /\ lastOp = <<1, "on_activate">>
    /\ dev[1].trigger_mode = "ext"
    /\ dev[1].roi # InitDevice.roi
    /\ _bin_value[1] # None
    /\ dev[1].exposure = _default_exposure

\* C6: a start_*_acquisition call returns false when the status it reads
\* last, after start_acquisition (after wait_for_frame for the single
\* acquisition), is 'error' and true for every other status.
C6_StartResultIsNotError ==
    \A i \in Adapter :
        lastOp[1] = i /\ lastOp[2] \in StartOps
        => LET sc == SessionCalls(calls)
               last == sc[Len(sc)]
           IN  /\ last[1] = "get_status"
               /\ Len(CallsNamed(calls, "get_status")) = 1
               /\ last[3] = Some(dev[i].status)
               /\ sc[Len(sc) - 1][1] =
                    (IF lastOp[2] = "start_single_acquisition"
                     THEN "wait_for_frame" ELSE "start_acquisition")
               /\ ret = Returns(last[3][1] # "error")

\* a start that succeeded although the device did not report 'ready'
C6_StartedWhileAcquiring ==
    /\ lastOp = <<1, "start_live_acquisition">>
    /\ dev[1].status = "acquiring"
    /\ ret = Returns(TRUE)

\* C7: stop_acquisition issues stop_acquisition and then
\* acquisition_in_progress on the session, and returns true exactly when
\* that check reports no acquisition in progress.
C7_StopResultIsNotInProgress ==
    \A i \in Adapter :
        lastOp = <<i, "stop_acquisition">>
        => /\ Names(calls) = <<"stop_acquisition", "acquisition_in_progress">>
           /\ ret = Returns(calls[2][3] = Some(FALSE))

\* a stop request after which acquisition was still in progress
C7_StillInProgress ==
    /\ lastOp = <<1, "stop_acquisition">>
    /\ calls[2][3] = Some(TRUE)
    /\ ret = Returns(FALSE)

\* C8: get_ready_state returns true exactly when the status of the device is
\* 'ready', reads the status once and changes nothing.
C8_ReadyIffStatusReady ==
    [][\A i \in Adapter :
        lastOp' = <<i, "get_ready_state">>
        => /\ ret' = Returns(dev[i].status = "ready")
           /\ calls' = << Call("get_status", <<>>, Some(dev[i].status)) >>
           /\ UNCHANGED <<activated, cam, _gain, _bin_value, dev, dcamapi, gainArg>>
      ]_vars

\* get_ready_state answered false for a device that is acquiring
C8_NotReadyWhileAcquiring ==
    /\ lastOp = <<1, "get_ready_state">>
    /\ dev[1].status = "acquiring"
    /\ ret = Returns(FALSE)

\* C9: with one adapter, the DLL path registration holds the adapter's
\* dll_location exactly while the adapter is activated, and is absent
\* otherwise.
C9_RegistrationIffActivated ==
    \A i \in Adapter :
        IF activated[i] THEN dcamapi = _dll_location(i) ELSE dcamapi = None

\* the adapter was deactivated and its registration removed
C9_Unregistered ==
    /\ lastOp = <<1, "on_deactivate">>
    /\ ret = Returns(None)
    /\ dcamapi = None

\* C10: with several adapters in one process, on_activate overwrites the
\* registration with its own path and on_deactivate removes it, whichever
\* other adapters are activated; an on_deactivate that finds the registration
\* already removed raises KeyError, and that happens only while another
\* adapter has been activated and deactivated in between.
C10_RegistrationUnprotected ==
    [][\A i \in Inst :
        /\ lastOp' = <<i, "on_activate">> => dcamapi' = _dll_location(i)
        /\ lastOp' = <<i, "on_deactivate">>
           => /\ dcamapi' = None
              /\ ret' = Raises("KeyError") <=> dcamapi = None
              /\ dcamapi = None
                 => \E j \in Inst \ {i} : cam[j] = "closed" /\ ~activated[j]
      ]_vars

\* an adapter's on_deactivate found the registration removed by the other one
C10_DeletedTwice ==
    \E i \in Inst :
        /\ lastOp = <<i, "on_deactivate">>
        /\ ret = Raises("KeyError")
        /\ \A j \in Inst : ~activated[j]
====
